---- MODULE Spec2Model ----
(***************************************************************************)
(* The machine / sensor / sensor-data CRUD routers of sensor-system, with  *)
(* the store (three Mongoose models), the express-validator chains of the  *)
(* routes and the wall clock read by Date.now.                             *)
(***************************************************************************)
EXTENDS Integers, FiniteSets, Sequences, TLC

\* The clock runs from 0 to MaxTime.
MaxTime == 2
\* `new ObjectId()` is drawn at most MaxIds times.
MaxIds == 2
\* A request body differs from the reference body in at most this many fields.
MaxDeviations == 2
\* At most this many requests are being handled at the same time.
MaxCalls == 2

(***************************************************************************)
(* JSON and BSON values.  A value has a type tag t; a string is one of     *)
(* three classes (s): "txt" (text that is neither a numeral nor a hex      *)
(* token), "num" (the decimal numeral of n) and "hex" (the n-th 24-digit   *)
(* hexadecimal token).                                                     *)
(***************************************************************************)
Val(t, s, n) == [t |-> t, s |-> s, n |-> n]
Undef == Val("undef", "", 0)
Txt(i) == Val("str", "txt", i)
NumStr(n) == Val("str", "num", n)
Hex(i) == Val("str", "hex", i)
Num(n) == Val("num", "", n)
Date(n) == Val("date", "", n)
Oid(i) == Val("oid", "", i)
Null == Val("null", "", 0)
CastError == Val("error", "", 0)

Entities == {"Machine", "Sensor", "SensorData"}

(***************************************************************************)
(* express-validator.                                                      *)
(***************************************************************************)
\* isString(): typeof value === 'string'.
isString(v) == v.t = "str"

\* isNumeric(): the value is turned into a string first, so numbers pass.
isNumeric(v) == v.t = "num" \/ (v.t = "str" /\ v.s = "num")

\* isMongoId(): a 24-digit hexadecimal string.
isMongoId(v) == v.t = "str" /\ v.s = "hex"

Check(check, v) ==
    CASE check = "isString" -> isString(v)
      [] check = "isNumeric" -> isNumeric(v)
      [] check = "isMongoId" -> isMongoId(v)

\* One link of a validation chain: body(field).check() or
\* body(field).optional().check().
Link(field, check, optional) == [field |-> field, check |-> check, optional |-> optional]

\* Whether a link of the chain reports its field: optional() skips an
\* undefined value, every other value goes through the check.
Fails(link, v) == ~(link.optional /\ v = Undef) /\ ~Check(link.check, v)

\* validationResult(req).array(): the failing fields, in chain order.
RECURSIVE validationResult(_, _)
validationResult(chain, body) ==
    IF chain = <<>> THEN <<>>
    ELSE (IF Fails(Head(chain), body[Head(chain).field])
             THEN <<Head(chain).field>> ELSE <<>>)
         \o validationResult(Tail(chain), body)

MachinePostChain ==
    << Link("name", "isString", FALSE),
       Link("description", "isString", FALSE),
       Link("companyName", "isString", FALSE) >>

MachinePatchChain ==
    << Link("name", "isString", TRUE),
       Link("description", "isString", TRUE),
       Link("companyName", "isString", TRUE) >>

SensorPostChain ==
    << Link("name", "isString", FALSE),
       Link("unitOfMeasurement", "isString", FALSE),
       Link("minValue", "isNumeric", FALSE),
       Link("maxValue", "isNumeric", FALSE),
       Link("machine", "isMongoId", FALSE) >>

SensorPatchChain ==
    << Link("name", "isString", TRUE),
       Link("unitOfMeasurement", "isString", TRUE),
       Link("minValue", "isNumeric", TRUE),
       Link("maxValue", "isNumeric", TRUE),
       Link("machine", "isMongoId", TRUE) >>

SensorDataPostChain ==
    << Link("value", "isNumeric", FALSE),
       Link("rawValue", "isNumeric", FALSE),
       Link("sensor", "isMongoId", FALSE) >>

SensorDataPatchChain ==
    << Link("value", "isNumeric", TRUE),
       Link("rawValue", "isNumeric", TRUE),
       Link("sensor", "isMongoId", TRUE) >>

(***************************************************************************)
(* Mongoose schemas: path -> SchemaType, and the paths with                *)
(* default: Date.now.                                                      *)
(***************************************************************************)
machineSchema ==
    [name |-> "String", createDate |-> "Date", updateDate |-> "Date",
     description |-> "String", companyName |-> "String"]

machineDefaults == {"createDate", "updateDate"}

sensorSchema ==
    [name |-> "String", createDate |-> "Date", unitOfMeasurement |-> "String",
     minValue |-> "Number", maxValue |-> "Number", machine |-> "ObjectId"]

sensorDefaults == {"createDate"}

sensorDataSchema ==
    [value |-> "Number", rawValue |-> "Number", date |-> "Date", sensor |-> "ObjectId"]

sensorDataDefaults == {"date"}

Schema(entity) ==
    CASE entity = "Machine" -> machineSchema
      [] entity = "Sensor" -> sensorSchema
      [] entity = "SensorData" -> sensorDataSchema

Defaults(entity) ==
    CASE entity = "Machine" -> machineDefaults
      [] entity = "Sensor" -> sensorDefaults
      [] entity = "SensorData" -> sensorDataDefaults

\* SchemaType casting of a value that is present; null is kept as it is by
\* every SchemaType.
Cast(type, v) ==
    IF v = Null THEN Null
    ELSE
    CASE type = "String" ->
            (IF v.t = "str" THEN v
             ELSE IF v.t = "num" THEN NumStr(v.n) ELSE CastError)
      [] type = "Number" ->
            (IF v.t = "num" THEN v
             ELSE IF v.t = "str" /\ v.s = "num" THEN Num(v.n) ELSE CastError)
      [] type = "Date" ->
            (IF v.t = "date" THEN v
             ELSE IF v.t = "num" \/ (v.t = "str" /\ v.s = "num") THEN Date(v.n)
             ELSE CastError)
      [] type = "ObjectId" ->
            (IF v.t = "oid" THEN v
             ELSE IF v.t = "str" /\ v.s = "hex" THEN Oid(v.n) ELSE CastError)

VARIABLES
    db,       \* db[e]: the collection of entity e, a function _id -> document
    now,      \* the clock, Date.now()
    nextId,   \* the next ObjectId the driver generates
    last,     \* the last request and the response it got
    deleted,  \* history: the <<entity, _id>> a DELETE has removed so far
    calls     \* calls[p]: the request that the p-th handler in progress serves

vars == <<db, now, nextId, last, deleted, calls>>

(***************************************************************************)
(* Documents.  A request body is a function from the schema's paths and    *)
(* "_id" to values, Undef where the body has no such key.                  *)
(***************************************************************************)
\* new Model(body): every path of the schema is cast from the body, or takes
\* its default (Date.now), or stays undefined.
NewDocument(schema, defaults, body, t) ==
    [f \in DOMAIN schema |->
        IF body[f] # Undef THEN Cast(schema[f], body[f])
        ELSE IF f \in defaults THEN Date(t) ELSE Undef]

\* The _id of a new document: the body's, or a fresh ObjectId.
DocumentId(body, fresh) ==
    IF body["_id"] # Undef THEN Cast("ObjectId", body["_id"]) ELSE Oid(fresh)

\* A path whose cast failed: save() and findByIdAndUpdate() reject with it.
HasCastError(doc) == \E f \in DOMAIN doc : doc[f] = CastError

\* machineSchema.pre('save'): this.updateDate = new Date().
PreSave(entity, doc, t) ==
    IF entity = "Machine" THEN [doc EXCEPT !["updateDate"] = Date(t)] ELSE doc

\* The update document of findByIdAndUpdate(id, body): the body's keys that
\* are paths of the schema, cast ($set of each).
CastUpdate(schema, body) ==
    [f \in {g \in DOMAIN schema : body[g] # Undef} |-> Cast(schema[f], body[f])]

\* $set applied to a stored document.
ApplyUpdate(doc, update) ==
    [f \in DOMAIN doc |-> IF f \in DOMAIN update THEN update[f] ELSE doc[f]]

\* A document as it is serialised in a response.
Out(id, doc) == [id |-> id, doc |-> doc]

\* Model.find(): every document of the collection.
Find(coll) == {Out(i, coll[i]) : i \in DOMAIN coll}

(***************************************************************************)
(* Requests and responses.                                                 *)
(***************************************************************************)
Response(entity, op, id, status, kind, errors, docs, logged) ==
    [entity |-> entity, op |-> op, id |-> id, status |-> status, kind |-> kind,
     errors |-> errors, docs |-> docs, logged |-> logged]

NoRequest == Response("", "", Undef, 0, "", <<>>, {}, FALSE)

\* A handler in progress: where it stands (pc), the request it serves and,
\* once its store operation has settled, the response it sends.
Call(pc, entity, op, id, body, reply) ==
    [pc |-> pc, entity |-> entity, op |-> op, id |-> id, body |-> body,
     reply |-> reply]

\* No request is being served.
Idle == Call("idle", "", "", Undef, <<>>, NoRequest)

\* The handlers that can be in progress at the same time.
Slots == 1..MaxCalls

\* A hexadecimal token a client sends names an ObjectId the driver has
\* generated already, or the token 0, which it never generates.
Known(v) == (v.t = "str" /\ v.s = "hex") => v.n < nextId

(***************************************************************************)
(* The request bodies and path parameters the clients send.                *)
(***************************************************************************)
\* The bodies that differ from base in at most MaxDeviations keys, a key f
\* taking a value of alts[f] instead.
Bodies(base, alts) ==
    UNION { { [f \in DOMAIN base |-> IF f \in S THEN g[f] ELSE base[f]] :
                g \in {h \in [S -> UNION {alts[f] : f \in S}] :
                          \A f \in S : h[f] \in alts[f]} } :
            S \in {T \in SUBSET DOMAIN base : Cardinality(T) <= MaxDeviations} }

\* The hexadecimal tokens: token 0 is never generated by the driver, token i
\* is the text of the i-th ObjectId it generates.
HexTokens == {Hex(i) : i \in 0..MaxIds}

\* The tokens of generated ObjectIds.
IssuedTokens == HexTokens \ {Hex(0)}

PathIds == HexTokens \cup {Txt(1)}

machinePostBody ==
    [name |-> Txt(1), description |-> Txt(1), companyName |-> Txt(1),
     createDate |-> Undef, updateDate |-> Undef, _id |-> Undef]

MachinePostBodies ==
    Bodies(machinePostBody,
           [name |-> {Undef, Num(1)}, description |-> {Undef},
            companyName |-> {Undef}, createDate |-> {Num(0), Num(MaxTime)},
            updateDate |-> {Num(0)}, _id |-> IssuedTokens])

machinePatchBody ==
    [name |-> Undef, description |-> Undef, companyName |-> Undef,
     createDate |-> Undef, updateDate |-> Undef, _id |-> Undef]

MachinePatchBodies ==
    Bodies(machinePatchBody,
           [name |-> {Txt(2), Num(1)}, description |-> {},
            companyName |-> {}, createDate |-> {Num(MaxTime)},
            updateDate |-> {Num(0)}, _id |-> {}])

sensorPostBody ==
    [name |-> Txt(1), unitOfMeasurement |-> Txt(1), minValue |-> Num(1),
     maxValue |-> Num(1), machine |-> Hex(0), createDate |-> Undef,
     _id |-> Undef]

SensorPostBodies ==
    Bodies(sensorPostBody,
           [name |-> {Undef, Num(1)}, unitOfMeasurement |-> {Undef},
            minValue |-> {Undef, Txt(1)}, maxValue |-> {Undef},
            machine |-> (HexTokens \cup {Undef, Txt(1)}) \ {Hex(0)},
            createDate |-> {}, _id |-> IssuedTokens])

sensorPatchBody ==
    [name |-> Undef, unitOfMeasurement |-> Undef, minValue |-> Undef,
     maxValue |-> Undef, machine |-> Undef, createDate |-> Undef,
     _id |-> Undef]

SensorPatchBodies ==
    Bodies(sensorPatchBody,
           [name |-> {}, unitOfMeasurement |-> {},
            minValue |-> {Txt(1), NumStr(2)}, maxValue |-> {},
            machine |-> HexTokens \cup {Txt(1), Null}, createDate |-> {},
            _id |-> {}])

sensorDataPostBody ==
    [value |-> Num(1), rawValue |-> Num(1), sensor |-> Hex(0),
     date |-> Undef, _id |-> Undef]

SensorDataPostBodies ==
    Bodies(sensorDataPostBody,
           [value |-> {Undef, Txt(1), NumStr(2)}, rawValue |-> {Undef},
            sensor |-> (HexTokens \cup {Undef, Txt(1)}) \ {Hex(0)},
            date |-> {}, _id |-> IssuedTokens])

sensorDataPatchBody ==
    [value |-> Undef, rawValue |-> Undef, sensor |-> Undef,
     date |-> Undef, _id |-> Undef]

SensorDataPatchBodies ==
    Bodies(sensorDataPatchBody,
           [value |-> {Txt(1), NumStr(2)}, rawValue |-> {},
            sensor |-> HexTokens \cup {Txt(1), Null}, date |-> {}, _id |-> {}])

(***************************************************************************)
(* The handlers of the three routers.                                      *)
(***************************************************************************)
Init ==
    /\ db = [e \in Entities |-> <<>>]
    /\ now = 0
    /\ nextId = 1
    /\ last = NoRequest
    /\ deleted = {}
    /\ calls = [p \in Slots |-> Idle]

\* Time passes.
Tick ==
    /\ now < MaxTime
    /\ now' = now + 1
    /\ UNCHANGED <<db, nextId, last, deleted, calls>>

\* The collection with the document inserted under id.
Insert(coll, id, doc) ==
    [i \in DOMAIN coll \cup {id} |-> IF i = id THEN doc ELSE coll[i]]

\* The collection without the document id.
Remove(coll, id) == [i \in DOMAIN coll \ {id} |-> coll[i]]

\* router.post('/'): validate, new Model(req.body), save().
Post(entity, chain, body) ==
    LET errors == validationResult(chain, body)
        doc == PreSave(entity,
                       NewDocument(Schema(entity), Defaults(entity), body, now), now)
        id == DocumentId(body, nextId)
    IN  /\ \A f \in DOMAIN body : Known(body[f])
        /\ body["_id"] = Undef => nextId <= MaxIds
        /\ IF errors # <<>>
           THEN /\ last' = Response(entity, "post", Undef, 400, "errors", errors, {}, FALSE)
                /\ UNCHANGED <<db, now, nextId, deleted>>
           ELSE IF HasCastError(doc) \/ id = CastError \/ id.n \in DOMAIN db[entity]
           THEN /\ last' = Response(entity, "post", Undef, 400, "message", <<>>, {}, TRUE)
                /\ UNCHANGED <<db, now, nextId, deleted>>
           ELSE /\ db' = [db EXCEPT ![entity] = Insert(@, id.n, doc)]
                /\ nextId' = IF body["_id"] = Undef THEN nextId + 1 ELSE nextId
                /\ last' = Response(entity, "post", Undef, 201, "doc", <<>>,
                                    {Out(id.n, doc)}, FALSE)
                /\ UNCHANGED <<now, deleted>>

\* router.get('/'): Model.find(), answered with the router's status.
GetAll(entity, status) ==
    /\ last' = Response(entity, "list", Undef, status, "list", <<>>, Find(db[entity]), FALSE)
    /\ UNCHANGED <<db, now, nextId, deleted>>

\* router.get('/:id'): Model.findById(id).  An id that is no ObjectId makes
\* findById throw a CastError, which the catch answers with 500.
GetById(entity, id, logNotFound) ==
    LET oid == Cast("ObjectId", id)
    IN  /\ Known(id)
        /\ last' =
             IF oid = CastError
             THEN Response(entity, "get", id, 500, "message", <<>>, {}, TRUE)
             ELSE IF oid.n \notin DOMAIN db[entity]
             THEN Response(entity, "get", id, 404, "message", <<>>, {}, logNotFound)
             ELSE Response(entity, "get", id, 200, "doc", <<>>,
                           {Out(oid.n, db[entity][oid.n])}, FALSE)
        /\ UNCHANGED <<db, now, nextId, deleted>>

\* router.patch('/:id'): Model.findByIdAndUpdate(id, req.body, {new: true}).
\* The validation chain of the route runs, but the handler never reads
\* validationResult; the id and the body are cast by the query, and a failed
\* cast is answered by the catch with 400.
Patch(entity, id, body, logNotFound) ==
    LET oid == Cast("ObjectId", id)
        update == CastUpdate(Schema(entity), body)
    IN  /\ Known(id)
        /\ \A f \in DOMAIN body : Known(body[f])
        /\ IF oid = CastError \/ HasCastError(update)
           THEN /\ last' = Response(entity, "patch", id, 400, "message", <<>>, {}, TRUE)
                /\ UNCHANGED <<db, now, nextId, deleted>>
           ELSE IF oid.n \notin DOMAIN db[entity]
           THEN /\ last' = Response(entity, "patch", id, 404, "message", <<>>, {}, logNotFound)
                /\ UNCHANGED <<db, now, nextId, deleted>>
           ELSE LET doc == ApplyUpdate(db[entity][oid.n], update)
                IN  /\ db' = [db EXCEPT ![entity][oid.n] = doc]
                    /\ last' = Response(entity, "patch", id, 200, "doc", <<>>,
                                        {Out(oid.n, doc)}, FALSE)
                    /\ UNCHANGED <<now, nextId, deleted>>

\* The children of a parent: the documents of the child collection whose
\* reference is the parent's _id.
Children(coll, path, oid) == {i \in DOMAIN coll : coll[i][path] = oid}

\* A delete that cascades from a machine to its sensors and from a sensor to
\* its sensor data.
DeleteCascade(entity, id, logNotFound) ==
    LET oid == Cast("ObjectId", id)
    IN  /\ Known(id)
        /\ IF oid = CastError
           THEN /\ last' = Response(entity, "delete", id, 500, "message", <<>>, {}, TRUE)
                /\ UNCHANGED <<db, now, nextId, deleted>>
           ELSE IF oid.n \notin DOMAIN db[entity]
           THEN /\ last' = Response(entity, "delete", id, 404, "message", <<>>, {}, logNotFound)
                /\ UNCHANGED <<db, now, nextId, deleted>>
           ELSE /\ db' = [e \in Entities |->
                            IF e = entity THEN Remove(db[e], oid.n)
                            ELSE IF entity = "Machine" /\ e = "Sensor"
                            THEN [i \in DOMAIN db[e] \ Children(db[e], "machine", oid) |-> db[e][i]]
                            ELSE IF entity = "Sensor" /\ e = "SensorData"
                            THEN [i \in DOMAIN db[e] \ Children(db[e], "sensor", oid) |-> db[e][i]]
                            ELSE db[e]]
                /\ last' = Response(entity, "delete", id, 200, "message", <<>>, {}, FALSE)
                /\ deleted' = deleted \cup {<<entity, oid.n>>}
                /\ UNCHANGED <<now, nextId>>

\* router.delete('/:id'): Model.findByIdAndDelete(id).
Delete(entity, id, logNotFound) ==
    LET oid == Cast("ObjectId", id)
    IN  /\ Known(id)
        /\ IF oid = CastError
           THEN /\ last' = Response(entity, "delete", id, 500, "message", <<>>, {}, TRUE)
                /\ UNCHANGED <<db, now, nextId, deleted>>
           ELSE IF oid.n \notin DOMAIN db[entity]
           THEN /\ last' = Response(entity, "delete", id, 404, "message", <<>>, {}, logNotFound)
                /\ UNCHANGED <<db, now, nextId, deleted>>
           ELSE /\ db' = [db EXCEPT ![entity] = Remove(@, oid.n)]
                /\ last' = Response(entity, "delete", id, 200, "message", <<>>, {}, FALSE)
                /\ deleted' = deleted \cup {<<entity, oid.n>>}
                /\ UNCHANGED <<now, nextId>>

MachinePost(body) == Post("Machine", MachinePostChain, body) /\ UNCHANGED calls
MachineGetAll == GetAll("Machine", 201) /\ UNCHANGED calls
MachineGetById(id) == GetById("Machine", id, TRUE) /\ UNCHANGED calls
MachinePatch(id, body) == Patch("Machine", id, body, TRUE) /\ UNCHANGED calls
MachineDelete(id) == Delete("Machine", id, TRUE) /\ UNCHANGED calls

SensorPost(body) == Post("Sensor", SensorPostChain, body) /\ UNCHANGED calls
SensorGetAll == GetAll("Sensor", 201) /\ UNCHANGED calls
SensorGetById(id) == GetById("Sensor", id, TRUE) /\ UNCHANGED calls
SensorPatch(id, body) == Patch("Sensor", id, body, TRUE) /\ UNCHANGED calls
SensorDelete(id) == Delete("Sensor", id, TRUE) /\ UNCHANGED calls

\* A listing that looks the machine up first and answers 404 without it.
SensorGetByExistingMachine(machineId) ==
    LET oid == Cast("ObjectId", machineId)
    IN  /\ Known(machineId)
        /\ last' =
             IF oid = CastError
             THEN Response("Sensor", "listByMachine", machineId, 500, "message",
                           <<>>, {}, TRUE)
             ELSE IF oid.n \notin DOMAIN db["Machine"]
             THEN Response("Sensor", "listByMachine", machineId, 404, "message",
                           <<>>, {}, TRUE)
             ELSE Response("Sensor", "listByMachine", machineId, 200, "list", <<>>,
                           {d \in Find(db["Sensor"]) : d.doc["machine"] = oid}, FALSE)
        /\ UNCHANGED <<db, now, nextId, deleted, calls>>

\* router.get('/:machineId/sensor'): Sensor.find({ machine: machineId }).
SensorGetByMachine(machineId) ==
    LET oid == Cast("ObjectId", machineId)
    IN  /\ Known(machineId)
        /\ last' =
             IF oid = CastError
             THEN Response("Sensor", "listByMachine", machineId, 500, "message",
                           <<>>, {}, TRUE)
             ELSE Response("Sensor", "listByMachine", machineId, 200, "list", <<>>,
                           {d \in Find(db["Sensor"]) : d.doc["machine"] = oid}, FALSE)
        /\ UNCHANGED <<db, now, nextId, deleted, calls>>

SensorDataPost(body) == Post("SensorData", SensorDataPostChain, body) /\ UNCHANGED calls
SensorDataGetAll == GetAll("SensorData", 200) /\ UNCHANGED calls
SensorDataGetById(id) == GetById("SensorData", id, FALSE) /\ UNCHANGED calls
SensorDataPatch(id, body) == Patch("SensorData", id, body, FALSE) /\ UNCHANGED calls
SensorDataDelete(id) == Delete("SensorData", id, FALSE) /\ UNCHANGED calls

MachineNext ==
    \/ \E body \in MachinePostBodies : MachinePost(body)
    \/ MachineGetAll
    \/ \E id \in PathIds : MachineGetById(id)
    \/ \E id \in PathIds, body \in MachinePatchBodies : MachinePatch(id, body)
    \/ \E id \in PathIds : MachineDelete(id)

SensorNext ==
    \/ \E body \in SensorPostBodies : SensorPost(body)
    \/ SensorGetAll
    \/ \E id \in PathIds : SensorGetById(id)
    \/ \E id \in PathIds, body \in SensorPatchBodies : SensorPatch(id, body)
    \/ \E id \in PathIds : SensorDelete(id)
    \/ \E id \in PathIds : SensorGetByMachine(id)

SensorDataNext ==
    \/ \E body \in SensorDataPostBodies : SensorDataPost(body)
    \/ SensorDataGetAll
    \/ \E id \in PathIds : SensorDataGetById(id)
    \/ \E id \in PathIds, body \in SensorDataPatchBodies : SensorDataPatch(id, body)
    \/ \E id \in PathIds : SensorDataDelete(id)

Next == Tick \/ MachineNext \/ SensorNext \/ SensorDataNext

\* The three routers together.  Its state space is the product of the three
\* collections; the claims are checked under the specifications below, each
\* with the handlers the claim is about.
Spec == Init /\ [][Next]_vars

\* The machine router alone.
SpecMachine == Init /\ [][Tick \/ MachineNext]_vars

\* The sensor router alone.
SpecSensor == Init /\ [][Tick \/ SensorNext]_vars

\* The bodies that differ from base in no key outside fields.
Only(bodies, base, fields) ==
    {b \in bodies : \A f \in DOMAIN b \ fields : b[f] = base[f]}

\* The handlers that create and delete documents and set and follow the
\* references between the three collections; the bodies vary in the
\* reference alone.
RelationsNext ==
    \/ MachinePost(machinePostBody)
    \/ \E id \in PathIds : MachineDelete(id)
    \/ \E body \in Only(SensorPostBodies, sensorPostBody, {"machine"}) : SensorPost(body)
    \/ \E id \in PathIds, body \in Only(SensorPatchBodies, sensorPatchBody, {"machine"}) :
          SensorPatch(id, body)
    \/ \E id \in PathIds : SensorDelete(id)
    \/ \E id \in PathIds : SensorGetByMachine(id)
    \/ \E body \in Only(SensorDataPostBodies, sensorDataPostBody, {"sensor"}) :
          SensorDataPost(body)

SpecRelations == Init /\ [][RelationsNext]_vars

\* The sensor-data router alone.
SpecSensorData == Init /\ [][Tick \/ SensorDataNext]_vars

(***************************************************************************)
(* Handlers in progress at the same time.  A handler runs from the request *)
(* to its await (the validation and the call of save, findByIdAndUpdate or *)
(* findByIdAndDelete), the store settles the operation, and the            *)
(* continuation sends the response.  The store settles one operation at a  *)
(* time, in any order.  ObjectIds are numbered in the order the documents  *)
(* reach the store.                                                        *)
(***************************************************************************)
PostChain(entity) ==
    CASE entity = "Machine" -> MachinePostChain
      [] entity = "Sensor" -> SensorPostChain
      [] entity = "SensorData" -> SensorDataPostChain

\* Whether the router logs its 404 responses.
LogsNotFound(entity) == entity # "SensorData"

\* What a store operation settles with: a document ("doc"), null ("null") or
\* a rejection ("error"), and the collection after it.
Result(kind, id, doc, coll) == [kind |-> kind, id |-> id, doc |-> doc, coll |-> coll]

\* document.save(): insertOne of the new document.
save(entity, body) ==
    LET doc == PreSave(entity,
                       NewDocument(Schema(entity), Defaults(entity), body, now), now)
        id == DocumentId(body, nextId)
    IN  IF HasCastError(doc) \/ id = CastError \/ id.n \in DOMAIN db[entity]
        THEN Result("error", 0, <<>>, db[entity])
        ELSE Result("doc", id.n, doc, Insert(db[entity], id.n, doc))

\* Model.findByIdAndUpdate(id, body, {new: true}): findOneAndUpdate.
findByIdAndUpdate(entity, id, body) ==
    LET oid == Cast("ObjectId", id)
        update == CastUpdate(Schema(entity), body)
    IN  IF oid = CastError \/ HasCastError(update)
        THEN Result("error", 0, <<>>, db[entity])
        ELSE IF oid.n \notin DOMAIN db[entity]
        THEN Result("null", 0, <<>>, db[entity])
        ELSE LET doc == ApplyUpdate(db[entity][oid.n], update)
             IN  Result("doc", oid.n, doc, [db[entity] EXCEPT ![oid.n] = doc])

\* Model.findByIdAndDelete(id): findOneAndDelete.
findByIdAndDelete(entity, id) ==
    LET oid == Cast("ObjectId", id)
    IN  IF oid = CastError THEN Result("error", 0, <<>>, db[entity])
        ELSE IF oid.n \notin DOMAIN db[entity]
        THEN Result("null", 0, <<>>, db[entity])
        ELSE Result("doc", oid.n, db[entity][oid.n], Remove(db[entity], oid.n))

\* The store operation of a handler.
StoreOperation(c) ==
    CASE c.op = "post" -> save(c.entity, c.body)
      [] c.op = "patch" -> findByIdAndUpdate(c.entity, c.id, c.body)
      [] c.op = "delete" -> findByIdAndDelete(c.entity, c.id)

\* The response of the continuation after the await: the catch block for a
\* rejection, the `if (!doc)` branch for null, the success response otherwise.
Reply(c, r) ==
    IF r.kind = "error"
    THEN Response(c.entity, c.op, c.id,
                  IF c.op = "delete" THEN 500 ELSE 400, "message", <<>>, {}, TRUE)
    ELSE IF r.kind = "null"
    THEN Response(c.entity, c.op, c.id, 404, "message", <<>>, {},
                  LogsNotFound(c.entity))
    ELSE CASE c.op = "post" ->
                 Response(c.entity, c.op, c.id, 201, "doc", <<>>,
                          {Out(r.id, r.doc)}, FALSE)
           [] c.op = "patch" ->
                 Response(c.entity, c.op, c.id, 200, "doc", <<>>,
                          {Out(r.id, r.doc)}, FALSE)
           [] c.op = "delete" ->
                 Response(c.entity, c.op, c.id, 200, "message", <<>>, {}, FALSE)

\* A request arrives and its handler runs to the await; a create request
\* that fails validation is answered at once.
Dispatch(p, entity, op, id, body) ==
    LET errors == IF op = "post" THEN validationResult(PostChain(entity), body)
                  ELSE <<>>
        reply == Response(entity, op, id, 400, "errors", errors, {}, FALSE)
    IN  /\ calls[p].pc = "idle"
        /\ Known(id)
        /\ (op = "post" /\ body["_id"] = Undef) => nextId <= MaxIds
        /\ \A f \in DOMAIN body : Known(body[f])
        /\ IF errors # <<>>
           THEN /\ calls' = [calls EXCEPT ![p] = Call("settled", entity, op, id, body, reply)]
                /\ last' = reply
           ELSE /\ calls' = [calls EXCEPT ![p] = Call("await", entity, op, id, body, NoRequest)]
                /\ UNCHANGED last
        /\ UNCHANGED <<db, now, nextId, deleted>>

\* A delete that looks the document up with one store operation and removes
\* it with a second one.
SettleInTwoOperations(p) ==
    LET c == calls[p]
        oid == Cast("ObjectId", c.id)
        r == StoreOperation(c)
    IN  IF c.op = "delete" /\ c.pc = "await" /\ r.kind = "doc"
        THEN /\ calls' = [calls EXCEPT ![p].pc = "found"]
             /\ UNCHANGED <<db, now, nextId, last, deleted>>
        ELSE IF c.pc = "found"
        THEN LET reply == Response(c.entity, c.op, c.id, 200, "message", <<>>, {}, FALSE)
             IN  /\ db' = [db EXCEPT ![c.entity] =
                              [i \in DOMAIN @ \ {oid.n} |-> @[i]]]
                 /\ deleted' = deleted \cup {<<c.entity, oid.n>>}
                 /\ last' = reply
                 /\ calls' = [calls EXCEPT ![p].pc = "settled", ![p].reply = reply]
                 /\ UNCHANGED <<now, nextId>>
        ELSE /\ c.pc = "await"
             /\ (c.op = "post" /\ c.body["_id"] = Undef) => nextId <= MaxIds
             /\ db' = [db EXCEPT ![c.entity] = r.coll]
             /\ nextId' = IF c.op = "post" /\ r.kind = "doc" /\ c.body["_id"] = Undef
                          THEN nextId + 1 ELSE nextId
             /\ deleted' = IF c.op = "delete" /\ r.kind = "doc"
                           THEN deleted \cup {<<c.entity, r.id>>} ELSE deleted
             /\ last' = Reply(c, r)
             /\ calls' = [calls EXCEPT ![p].pc = "settled", ![p].reply = Reply(c, r)]
             /\ UNCHANGED now

\* The store settles the operation a handler awaits, and the continuation
\* of the handler has its response.
Settle(p) ==
    LET c == calls[p]
        r == StoreOperation(c)
    IN  /\ c.pc = "await"
        /\ (c.op = "post" /\ c.body["_id"] = Undef) => nextId <= MaxIds
        /\ db' = [db EXCEPT ![c.entity] = r.coll]
        /\ nextId' = IF c.op = "post" /\ r.kind = "doc" /\ c.body["_id"] = Undef
                     THEN nextId + 1 ELSE nextId
        /\ deleted' = IF c.op = "delete" /\ r.kind = "doc"
                      THEN deleted \cup {<<c.entity, r.id>>} ELSE deleted
        /\ last' = Reply(c, r)
        /\ calls' = [calls EXCEPT ![p].pc = "settled", ![p].reply = Reply(c, r)]
        /\ UNCHANGED now

\* The response is sent and the handler is over.
Respond(p) ==
    /\ calls[p].pc = "settled"
    /\ calls' = [calls EXCEPT ![p] = Idle]
    /\ UNCHANGED <<db, now, nextId, last, deleted>>

\* A create body without a name, and an update body that sets the name.
machineNameless == [machinePostBody EXCEPT !["name"] = Undef]
machineRename == [machinePatchBody EXCEPT !["name"] = Txt(2)]

\* The requests handled at the same time: creates, updates and deletes of
\* machines, by the identifiers the server has issued.
ConcurrentNext ==
    \/ \E p \in Slots, body \in {machinePostBody, machineNameless} :
          Dispatch(p, "Machine", "post", Undef, body)
    \/ \E p \in Slots, id \in IssuedTokens : Dispatch(p, "Machine", "patch", id, machineRename)
    \/ \E p \in Slots, id \in IssuedTokens : Dispatch(p, "Machine", "delete", id, <<>>)
    \/ \E p \in Slots : Settle(p)
    \/ \E p \in Slots : Respond(p)

SpecConcurrent == Init /\ [][ConcurrentNext]_vars

(***************************************************************************)
(* The claims.  A step that handles a request leaves the clock alone and   *)
(* sets last to the request and its response; the step is taken from the   *)
(* collections db (unprimed) to db'.                                        *)
(***************************************************************************)
\* The step handles a request of entity and op.
Handled(entity, op) ==
    /\ now' = now
    /\ last'.entity = entity
    /\ last'.op = op

\* C1: every successful PATCH /machine/:id refreshes updateDate to the
\* current time: the answered document carries the time of the request, and
\* wherever the clock has moved since the stored updateDate, the new
\* updateDate is strictly greater than the one before the call.
C1_UpdateRefreshesUpdateDate ==
    [][ (Handled("Machine", "patch") /\ last'.status = 200) =>
          \A d \in last'.docs :
             /\ d.doc["updateDate"] = Date(now)
             /\ db'["Machine"][d.id]["updateDate"] = Date(now)
             /\ db["Machine"][d.id]["updateDate"].n < now =>
                  db'["Machine"][d.id]["updateDate"].n
                      > db["Machine"][d.id]["updateDate"].n ]_vars

\* C2: in every reachable state every stored Machine document has
\* updateDate >= createDate.
C2_UpdateDateNotBeforeCreateDate ==
    \A i \in DOMAIN db["Machine"] :
        db["Machine"][i]["updateDate"].n >= db["Machine"][i]["createDate"].n

(***************************************************************************)
(* The field specification of the design (sections 3, 4.1 and 6): the      *)
(* checks of a create request, a field being optional where the data model *)
(* says so.  The claims about validation are stated against it.            *)
(***************************************************************************)
CreateFieldSpec(entity) ==
    CASE entity = "Machine" ->
            << Link("name", "isString", FALSE),
               Link("description", "isString", TRUE),
               Link("companyName", "isString", TRUE) >>
      [] entity = "Sensor" ->
            << Link("name", "isString", FALSE),
               Link("unitOfMeasurement", "isString", FALSE),
               Link("minValue", "isNumeric", TRUE),
               Link("maxValue", "isNumeric", TRUE),
               Link("machine", "isMongoId", FALSE) >>
      [] entity = "SensorData" ->
            << Link("value", "isNumeric", FALSE),
               Link("rawValue", "isNumeric", FALSE),
               Link("sensor", "isMongoId", FALSE) >>

\* An update request: the same checks, on the fields that are present.
UpdateFieldSpec(entity) ==
    [k \in DOMAIN CreateFieldSpec(entity) |->
        [CreateFieldSpec(entity)[k] EXCEPT !.optional = TRUE]]

Range(seq) == {seq[k] : k \in DOMAIN seq}

\* The fields of body that fail the field specification.
Failing(fieldSpec, body) == Range(validationResult(fieldSpec, body))

\* The create request with this body is answered as C3 says.
CreateRejected(entity, body) ==
    Failing(CreateFieldSpec(entity), body) # {} =>
        /\ last'.status = 400
        /\ last'.kind = "errors"
        /\ Range(last'.errors) = Failing(CreateFieldSpec(entity), body)
        /\ Find(db'[entity]) = Find(db[entity])

\* C3: a create request with a required field missing or of the wrong type
\* is answered 400 with an errors list that names exactly the failing
\* fields, and the documents a List returns are the same as before.
C3_CreateValidation ==
    [][ /\ \A body \in MachinePostBodies :
               MachinePost(body) => CreateRejected("Machine", body)
        /\ \A body \in SensorPostBodies :
               SensorPost(body) => CreateRejected("Sensor", body)
        /\ \A body \in SensorDataPostBodies :
               SensorDataPost(body) => CreateRejected("SensorData", body) ]_vars

\* The _id that a path parameter names in the collection of entity, if any.
Resolves(entity, id) == isMongoId(id) /\ id.n \in DOMAIN db[entity]

\* The update request with this id and body is answered as C4 says.
UpdateRejected(entity, id, body) ==
    (Resolves(entity, id) /\ Failing(UpdateFieldSpec(entity), body) # {}) =>
        /\ last'.status = 400
        /\ last'.kind = "errors"
        /\ Failing(UpdateFieldSpec(entity), body) \subseteq Range(last'.errors)
        /\ \A f \in Range(last'.errors) : body[f] # Undef
        /\ db'[entity] = db[entity]

\* C4: an update of an existing document whose body has a present field
\* failing its type check is answered 400 with {errors: [...]} naming the
\* field, the stored document is unchanged, and no absent field is reported.
C4_UpdateValidation ==
    [][ /\ \A id \in PathIds, body \in MachinePatchBodies :
               MachinePatch(id, body) => UpdateRejected("Machine", id, body)
        /\ \A id \in PathIds, body \in SensorPatchBodies :
               SensorPatch(id, body) => UpdateRejected("Sensor", id, body)
        /\ \A id \in PathIds, body \in SensorDataPatchBodies :
               SensorDataPatch(id, body) => UpdateRejected("SensorData", id, body) ]_vars

\* C5: GetById answers 404 when the id matches no stored document and when
\* the id is no valid identifier; a malformed id never gets a 500.
C5_GetByIdNotFound ==
    (last.op = "get" /\ ~Resolves(last.entity, last.id)) => last.status = 404

\* C6: once a DeleteById(id) has succeeded, every later GetById(id) and
\* DeleteById(id) of that entity answers 404, whatever ran in between.
C6_DeletedStaysNotFound ==
    [][ \A entity \in Entities :
          ( /\ Handled(entity, "get") \/ Handled(entity, "delete")
            /\ isMongoId(last'.id)
            /\ <<entity, last'.id.n>> \in deleted ) => last'.status = 404 ]_vars

\* The fields of a create request that the caller supplies.
CallerFields(chain) == {chain[k].field : k \in DOMAIN chain}

\* The value of a stored path as res.json writes it.
Json(v) ==
    IF v.t = "oid" THEN Hex(v.n) ELSE IF v.t = "date" THEN Num(v.n) ELSE v

\* The valid create request with this body is answered as C7 says.
CreateAccepted(chain, body) ==
    validationResult(chain, body) = <<>> =>
        /\ last'.status = 201
        /\ \E d \in last'.docs :
              /\ last'.docs = {d}
              /\ d.id = nextId
              /\ nextId' = nextId + 1
              /\ \A f \in CallerFields(chain) : Json(d.doc[f]) = body[f]

\* C7: a valid create request is answered 201 with a document that carries
\* a server-assigned identifier and the caller's fields as sent, and a
\* GetById of that identifier that follows it answers with the same document.
C7_CreateThenGet ==
    [][ /\ \A body \in MachinePostBodies :
               MachinePost(body) => CreateAccepted(MachinePostChain, body)
        /\ \A body \in SensorPostBodies :
               SensorPost(body) => CreateAccepted(SensorPostChain, body)
        /\ \A body \in SensorDataPostBodies :
               SensorDataPost(body) => CreateAccepted(SensorDataPostChain, body)
        /\ \A entity \in Entities :
              ( /\ last.entity = entity /\ last.op = "post" /\ last.status = 201
                /\ Handled(entity, "get")
                /\ \E d \in last.docs : last'.id = Hex(d.id) ) =>
                    last'.status = 200 /\ last'.docs = last.docs ]_vars

\* The sensors that refer to the machine a path parameter names.
SensorsOf(id) ==
    {d \in Find(db["Sensor"]) : isMongoId(id) /\ d.doc["machine"] = Oid(id.n)}

\* C8: a delete of a machine leaves the sensors and the sensor data as they
\* are, a delete of a sensor leaves the sensor data as they are, and the
\* sensors of a machine are still listed right after the machine is deleted.
C8_DeleteDoesNotCascade ==
    [][ /\ Handled("Machine", "delete") =>
              db'["Sensor"] = db["Sensor"] /\ db'["SensorData"] = db["SensorData"]
        /\ Handled("Sensor", "delete") => db'["SensorData"] = db["SensorData"]
        /\ ( /\ last.entity = "Machine" /\ last.op = "delete" /\ last.status = 200
             /\ Handled("Sensor", "listByMachine")
             /\ last'.id = last.id ) =>
                 last'.status = 200 /\ last'.docs = SensorsOf(last.id) ]_vars

\* A deleted machine whose sensor is still stored and listed.
C8_OrphanListed ==
    /\ last.op = "listByMachine"
    /\ last.status = 200
    /\ last.docs # {}
    /\ isMongoId(last.id)
    /\ <<"Machine", last.id.n>> \in deleted
    /\ last.id.n \notin DOMAIN db["Machine"]

C10_ListAnswers200 ==
    last.op = "list" =>
        /\ last.status = 200
        /\ last.kind = "list"
        /\ last.docs = Find(db[last.entity])

\* A create body that sends nothing but the fields of the field
\* specification, every one of them passing it, with an optional field left
\* out.
OmitsOptional(entity, body) ==
    /\ Failing(CreateFieldSpec(entity), body) = {}
    /\ \A f \in DOMAIN body \ CallerFields(CreateFieldSpec(entity)) : body[f] = Undef
    /\ \E k \in DOMAIN CreateFieldSpec(entity) :
          /\ CreateFieldSpec(entity)[k].optional
          /\ body[CreateFieldSpec(entity)[k].field] = Undef

\* The create request with this body is answered 201 with the document it
\* has persisted.
CreatePersisted(entity) ==
    /\ last'.status = 201
    /\ \E d \in last'.docs :
          /\ d.id \notin DOMAIN db[entity]
          /\ d.id \in DOMAIN db'[entity]
          /\ db'[entity][d.id] = d.doc

\* C11: a create request whose required fields are valid is accepted (201
\* and a persisted document) when optional fields are left out: POST /machine
\* without description and/or companyName, POST /sensor without minValue
\* and/or maxValue.
C11_OptionalFieldsOmitted ==
    [][ /\ \A body \in MachinePostBodies :
               (MachinePost(body) /\ OmitsOptional("Machine", body)) =>
                   CreatePersisted("Machine")
        /\ \A body \in SensorPostBodies :
               (SensorPost(body) /\ OmitsOptional("Sensor", body)) =>
                   CreatePersisted("Sensor") ]_vars

\* C12: an update whose id resolves to no stored document of the entity (it
\* was never created, it was deleted, or it is no well-formed identifier) is
\* answered 404, and the store is the same after it as before.
C12_UpdateUnresolvedId ==
    [][ \A entity \in Entities :
          (Handled(entity, "patch") /\ ~Resolves(entity, last'.id)) =>
              /\ last'.status = 404
              /\ db' = db ]_vars

\* C13: every request answered with a failure (400, 404 or 500) has had an
\* error-log entry with its method and path written before the response was
\* sent.
C13_FailuresLogged ==
    last.status >= 400 => last.logged

\* C14: the createDate of a Machine document never changes while the
\* document is stored: no step, an update with a createDate in its payload
\* included, leaves a stored machine with another createDate.
C14_CreateDateImmutable ==
    [][ \A i \in DOMAIN db["Machine"] \cap DOMAIN db'["Machine"] :
          db'["Machine"][i]["createDate"] = db["Machine"][i]["createDate"] ]_vars

\* A stored value is present and of the type its check asks for: a string,
\* a number, or an identifier (the stored form of a reference).
StoredTyped(check, v) ==
    CASE check = "isString" -> v.t = "str"
      [] check = "isNumeric" -> v.t = "num"
      [] check = "isMongoId" -> v.t = "oid"

\* C15: in every reachable state every stored document has each
\* write-required field of its entity present and of its type, and each
\* reference field holds an identifier (of a stored document or not).
C15_StoredDocumentsTyped ==
    \A entity \in Entities : \A i \in DOMAIN db[entity] :
        \A k \in DOMAIN CreateFieldSpec(entity) :
            LET link == CreateFieldSpec(entity)[k]
            IN  ~link.optional => StoredTyped(link.check, db[entity][i][link.field])

\* The handler of a request run alone, from the request to the response.
Serial(c) ==
    CASE c.op = "post" -> Post(c.entity, PostChain(c.entity), c.body)
      [] c.op = "patch" -> Patch(c.entity, c.id, c.body, LogsNotFound(c.entity))
      [] c.op = "delete" -> Delete(c.entity, c.id, LogsNotFound(c.entity))

\* The step gives handler p its response.
Settles(p) == calls[p].pc # "settled" /\ calls'[p].pc = "settled"

\* The documents that the step inserts, changes or removes.
Written ==
    {w \in UNION {{<<e, i>> : i \in DOMAIN db[e] \cup DOMAIN db'[e]} : e \in Entities} :
        \/ w[2] \notin DOMAIN db[w[1]]
        \/ w[2] \notin DOMAIN db'[w[1]]
        \/ db[w[1]][w[2]] # db'[w[1]][w[2]]}

\* C16: with Create, UpdateById and DeleteById requests handled at the same
\* time, every step writes at most one document; the store changes only
\* where a handler gets its response, and that step is, on the store and in
\* the response, the step of the same handler run alone, so the requests
\* are served as if one after the other in the order of these steps; the
\* response is sent as it was settled; and of two deletes of the same
\* identifier in progress together at most one is answered 200, the other
\* 404.
C16_Serializable ==
    [][ /\ Cardinality(Written) <= 1
        /\ (\A p \in Slots : ~Settles(p)) => UNCHANGED <<db, nextId, deleted, last>>
        /\ \A p \in Slots :
              /\ Settles(p) => Serial(calls'[p]) /\ calls'[p].reply = last'
              /\ calls[p].pc = "settled" => calls'[p] \in {calls[p], Idle}
              /\ ( /\ Settles(p)
                    /\ calls'[p].op = "delete"
                    /\ \E q \in Slots \ {p} :
                          /\ calls[q].pc = "settled"
                          /\ calls[q].op = "delete"
                          /\ calls[q].entity = calls'[p].entity
                          /\ calls[q].id = calls'[p].id
                          /\ calls[q].reply.status = 200 ) =>
                        last'.status = 404 ]_vars

\* Two deletes of the same identifier in progress together, one answered 200
\* and the other 404.
C16_ConcurrentDeletes ==
    \E p \in Slots, q \in Slots :
        /\ p # q
        /\ calls[p].pc = "settled" /\ calls[q].pc = "settled"
        /\ calls[p].op = "delete" /\ calls[q].op = "delete"
        /\ calls[p].id = calls[q].id
        /\ calls[p].reply.status = 200
        /\ calls[q].reply.status = 404

====
